---- MODULE Spec2Model ----
(***************************************************************************)
(* Model of src/app.py: a Streamlit script (gTTS text-to-speech plus       *)
(* SpeechRecognition speech-to-text).  Streamlit re-executes the whole     *)
(* script top to bottom on every widget interaction; st.session_state and  *)
(* widget values survive between runs, everything else is recomputed.      *)
(* One action of the model is one script run started by one interaction.   *)
(* The only place a run is split is the blocking call tts.save (line 59),  *)
(* whose answer comes from the remote synthesis service.                   *)
(* Temporary files follow POSIX semantics: os.unlink of an existing path   *)
(* removes it, whether or not a handle is still open.                      *)
(***************************************************************************)
EXTENDS Integers, Sequences, FiniteSets, TLC

\* ---------------------------------------------------------------- bounds
MaxLen == 2        \* longest text the user types
MaxCalls == 2      \* script runs counted per uploaded file
MaxFrames == 1     \* audio frames collected by one recording

\* ------------------------------------------------------- program constants
MinRecordSeconds == 1
MaxRecordSeconds == 30
DefaultRecordSeconds == 5

Absent == <<"absent">>             \* key not in st.session_state
None == "None"
NoText == <<"None">>               \* no string rendered / returned
NoTts == [text |-> NoText, lang |-> "none"]

Chars == {" ", "a"}
Whitespace == {" "}
Texts == UNION {[1..n -> Chars] : n \in 0..MaxLen}

DefaultText == <<"H", "i">>        \* "Hi there, I'm your personal assistant."
MsgUnknown == <<"(", "U", ")">>    \* "(Could not understand audio)"
MsgRequest == <<"(", "R", ")">>    \* "(Could not request results; e)"
SpokenTexts == {<<"a">>}           \* what recognize_google may return

\* the selectbox options, each written as the result of lang.split("-")
Langs == {<<"en">>, <<"en", "uk">>, <<"en", "us">>, <<"de">>, <<"fr">>}
DefaultLang == <<"en">>
GttsLang(l) == l[1]                \* lang.split("-")[0]

RecordSecondsChoices == {MinRecordSeconds, DefaultRecordSeconds, MaxRecordSeconds}

\* uploaded files by what their bytes are
Files == {"audio", "corrupt", "empty"}
RecogOutcomes == {[kind |-> "ok", text |-> t] : t \in SpokenTexts}
                   \cup {[kind |-> "unknown", text |-> NoText],
                         [kind |-> "request", text |-> NoText]}
SaveAnswers == {"audio", "empty", "error"}
SpeakFaults == {"none", "read", "embed"}

VARIABLES
  tts_text,        \* st.session_state["tts_text"]
  lang,            \* selectbox value
  record_seconds,  \* number_input value
  playing,         \* webrtc_ctx.state.playing
  uploaded,        \* file_uploader value: "none" or the kind of file
  tmpfiles,        \* temporary files on disk
  pc,              \* "idle", or "saving" while the script is inside tts.save
  tts,             \* the gTTS object of the run in progress
  resp,            \* the synthesis service's answer to the pending save
  trigger,         \* the interaction that started the last script run
  textBox,         \* text: what st.text_area rendered and returned
  speakOut,        \* what the Speak block rendered
  embed,           \* bytes given to autoplay_audio_bytes
  recOut,          \* what the Record block rendered
  recTranscript,   \* st.write(transcript) of the Record block
  recRecog,        \* outcome of the Record block's recognition call
  upTranscript,    \* st.write(text_out) of the upload block
  upError,         \* st.error of the upload block
  upRecog,         \* outcome of the upload block's recognition call
  aborted,         \* the run ended in an uncaught exception
  transcodeCalls,  \* AudioSegment.from_file calls on the present upload
  recogCalls       \* recognize_google calls on the present upload

vars == <<tts_text, lang, record_seconds, playing, uploaded, tmpfiles, pc, tts,
          resp, trigger, textBox, speakOut, embed, recOut, recTranscript,
          recRecog, upTranscript, upError, upRecog, aborted, transcodeCalls,
          recogCalls>>

\* ----------------------------------------------------------- pure helpers
RECURSIVE LStrip(_)
LStrip(t) == IF t # <<>> /\ Head(t) \in Whitespace THEN LStrip(Tail(t)) ELSE t

RECURSIVE RStrip(_)
RStrip(t) ==
  IF t # <<>> /\ t[Len(t)] \in Whitespace
  THEN RStrip(SubSeq(t, 1, Len(t) - 1)) ELSE t

StripNothing(t) == t

\* str.strip()
Strip(t) == RStrip(LStrip(t))

InitSlotAlways(s) == DefaultText

\* lines 34-35: the slot gets the greeting only when the key is absent
InitSlot(s) == IF s = Absent THEN DefaultText ELSE s

TextAreaDefault(s) == DefaultText

\* line 38: a keyed widget returns the session value
TextArea(s) == s

\* os.unlink(name)
Unlink(files, f) == files \ {f}

\* tempfile.NamedTemporaryFile(delete=False, suffix=...)
NamedTemporaryFile(files, f) == files \cup {f}

\* Assigning st.session_state[key] after the widget with that key was
\* instantiated in the same run raises StreamlitAPIException.
SessionAssign(s, v, instantiated) ==
  IF instantiated THEN [raised |-> TRUE, slot |-> s]
  ELSE [raised |-> FALSE, slot |-> v]

\* frames_to_wav_bytes: None exactly when there is no chunk
FramesToWavBytes(n) == IF n = 0 THEN None ELSE "wav"

DecodesAnything(f) == TRUE

\* AudioSegment.from_file succeeds exactly on decodable audio bytes
AudioSegmentDecodes(f) == f = "audio"

RecognizeUncaught(o) ==
  IF o.kind = "ok" THEN [raised |-> FALSE, text |-> o.text]
  ELSE [raised |-> TRUE, text |-> NoText]

\* lines 139-144: recognize_google and its two except clauses
Recognize(o) ==
  CASE o.kind = "ok" -> [raised |-> FALSE, text |-> o.text]
    [] o.kind = "unknown" -> [raised |-> FALSE, text |-> MsgUnknown]
    [] o.kind = "request" -> [raised |-> FALSE, text |-> MsgRequest]

\* transcribe_wav_bytes; wfault: tmp.write, sr.AudioFile or recog.record raise
TranscribeWavBytes(files, wfault, o) ==
  LET created == NamedTemporaryFile(files, "wav")
      r == IF wfault THEN [raised |-> TRUE, text |-> NoText] ELSE Recognize(o)
  IN [raised |-> r.raised, text |-> r.text,
      recog |-> IF wfault THEN "none" ELSE o.kind,
      files |-> Unlink(created, "wav")]

SpeakTryNoFinally(files, r, fault) ==
  LET raised == r = "error" \/ fault # "none"
  IN [raised |-> raised,
      out |-> IF raised THEN "exception" ELSE "played",
      embed |-> IF raised THEN None ELSE r,
      files |-> IF raised THEN files ELSE Unlink(files, "mp3")]

\* lines 58-67: save, read back, embed; the finally unlinks on every path
SpeakTry(files, r, fault) ==
  LET raised == r = "error" \/ fault # "none"
  IN [raised |-> raised,
      out |-> IF raised THEN "exception" ELSE "played",
      embed |-> IF raised THEN None ELSE r,
      files |-> Unlink(files, "mp3")]

\* ------------------------------------------------------- script sections
\* lines 154-188: the Record block.  clicked: st.button("Record ...") is
\* true in this run; confirm: the nested button is the one that was clicked.
RecordSection(files, s, clicked, confirm, n, o, wfault) ==
  LET quiet(out) == [out |-> out, text |-> NoText, recog |-> "none",
                     raised |-> FALSE, files |-> files, slot |-> s]
  IN IF ~clicked THEN quiet("none")
     ELSE IF ~playing THEN quiet("notplaying")
     ELSE IF n = 0 THEN quiet("noframes")
     ELSE IF FramesToWavBytes(n) = None THEN quiet("convfail")
     ELSE LET r == TranscribeWavBytes(files, wfault, o)
              a == SessionAssign(s, r.text, TRUE)
          IN IF r.raised
             THEN [out |-> "exception", text |-> NoText, recog |-> r.recog,
                   raised |-> TRUE, files |-> r.files, slot |-> s]
             ELSE IF confirm
             THEN [out |-> IF a.raised THEN "exception" ELSE "applied",
                   text |-> r.text, recog |-> r.recog, raised |-> a.raised,
                   files |-> r.files, slot |-> a.slot]
             ELSE [out |-> "shown", text |-> r.text, recog |-> r.recog,
                   raised |-> FALSE, files |-> r.files, slot |-> s]

\* lines 193-212: the upload block.  confirm: the "(uploaded)" button is
\* the one that was clicked.  Every exception lands in the except clause.
UploadSection(files, s, up, confirm, o, wfault) ==
  IF up = "none"
  THEN [transcript |-> NoText, error |-> FALSE, recog |-> "none",
        files |-> files, slot |-> s, transcoded |-> 0, recognized |-> 0]
  ELSE IF ~AudioSegmentDecodes(up)
  THEN [transcript |-> NoText, error |-> TRUE, recog |-> "none",
        files |-> files, slot |-> s, transcoded |-> 1, recognized |-> 0]
  ELSE LET r == TranscribeWavBytes(files, wfault, o)
           a == SessionAssign(s, r.text, TRUE)
           called == IF r.recog = "none" THEN 0 ELSE 1
       IN IF r.raised
          THEN [transcript |-> NoText, error |-> TRUE, recog |-> r.recog,
                files |-> r.files, slot |-> s, transcoded |-> 1,
                recognized |-> called]
          ELSE IF confirm
          THEN [transcript |-> r.text, error |-> a.raised, recog |-> r.recog,
                files |-> r.files, slot |-> a.slot, transcoded |-> 1,
                recognized |-> called]
          ELSE [transcript |-> r.text, error |-> FALSE, recog |-> r.recog,
                files |-> r.files, slot |-> s, transcoded |-> 1,
                recognized |-> called]

\* what the environment decides in a run: the frames the receiver delivers
\* (lines 161-168), the recognition service's outcome and whether the
\* temporary WAV file can be written and read; each only where the run asks
FrameCounts(recording) == IF recording /\ playing THEN 0..MaxFrames ELSE {0}
Outcomes(asked) ==
  IF asked THEN RecogOutcomes ELSE {[kind |-> "unknown", text |-> NoText]}
Faults(asked) == IF asked THEN BOOLEAN ELSE {FALSE}

\* lines 69-214 of one run: Record block, then upload block unless the
\* Record block raised.  tc, rc: the counters of the present upload.
RunFrom69(files, s, up, tc, rc, recClicked, recConfirm, upConfirm) ==
  \E n \in FrameCounts(recClicked) :
  \E o1 \in Outcomes(recClicked /\ n > 0), w1 \in Faults(recClicked /\ n > 0) :
  \E o2 \in Outcomes(AudioSegmentDecodes(up)),
     w2 \in Faults(AudioSegmentDecodes(up)) :
    LET rec == RecordSection(files, s, recClicked, recConfirm, n, o1, w1)
        upl == IF rec.raised
               THEN [transcript |-> NoText, error |-> FALSE, recog |-> "none",
                     files |-> rec.files, slot |-> rec.slot,
                     transcoded |-> 0, recognized |-> 0]
               ELSE UploadSection(rec.files, rec.slot, up, upConfirm, o2, w2)
    IN /\ recOut' = rec.out
       /\ recTranscript' = rec.text
       /\ recRecog' = rec.recog
       /\ upTranscript' = upl.transcript
       /\ upError' = upl.error
       /\ upRecog' = upl.recog
       /\ aborted' = rec.raised
       /\ tmpfiles' = upl.files
       /\ tts_text' = upl.slot
       /\ transcodeCalls' = tc + upl.transcoded
       /\ recogCalls' = rc + upl.recognized

\* a run that an uncaught exception of the Speak block ended (lines 59-61)
AbortedInSpeak(files, s) ==
  /\ recOut' = "none"
  /\ recTranscript' = NoText
  /\ recRecog' = "none"
  /\ upTranscript' = NoText
  /\ upError' = FALSE
  /\ upRecog' = "none"
  /\ aborted' = TRUE
  /\ tmpfiles' = files
  /\ tts_text' = s
  /\ UNCHANGED <<transcodeCalls, recogCalls>>

\* a run in which the Speak button is not the trigger
NoSpeak == speakOut' = "none" /\ embed' = None /\ UNCHANGED <<pc, tts, resp>>

Started == tts_text # Absent /\ pc = "idle"
CallsOk == uploaded = "none" \/ transcodeCalls < MaxCalls

\* ---------------------------------------------------------------- Init
Init ==
  /\ tts_text = Absent
  /\ lang = DefaultLang
  /\ record_seconds = DefaultRecordSeconds
  /\ playing = FALSE
  /\ uploaded = "none"
  /\ tmpfiles = {}
  /\ pc = "idle"
  /\ tts = NoTts
  /\ resp = "none"
  /\ trigger = "none"
  /\ textBox = NoText
  /\ speakOut = "none"
  /\ embed = None
  /\ recOut = "none"
  /\ recTranscript = NoText
  /\ recRecog = "none"
  /\ upTranscript = NoText
  /\ upError = FALSE
  /\ upRecog = "none"
  /\ aborted = FALSE
  /\ transcodeCalls = 0
  /\ recogCalls = 0

\* -------------------------------------------------------------- actions
\* the first run of the session
Load ==
  /\ tts_text = Absent
  /\ trigger' = "load"
  /\ textBox' = TextArea(InitSlot(tts_text))
  /\ NoSpeak
  /\ RunFrom69(tmpfiles, InitSlot(tts_text), uploaded, transcodeCalls,
               recogCalls, FALSE, FALSE, FALSE)
  /\ UNCHANGED <<lang, record_seconds, playing, uploaded>>

\* the user edits the text box: the widget value is the slot (same key)
EditText(t) ==
  /\ Started /\ CallsOk
  /\ t # tts_text
  /\ trigger' = "edit"
  /\ textBox' = TextArea(InitSlot(t))
  /\ NoSpeak
  /\ RunFrom69(tmpfiles, InitSlot(t), uploaded, transcodeCalls, recogCalls,
               FALSE, FALSE, FALSE)
  /\ UNCHANGED <<lang, record_seconds, playing, uploaded>>

SelectLang(l) ==
  /\ Started /\ CallsOk
  /\ l # lang
  /\ lang' = l
  /\ trigger' = "lang"
  /\ textBox' = TextArea(InitSlot(tts_text))
  /\ NoSpeak
  /\ RunFrom69(tmpfiles, InitSlot(tts_text), uploaded, transcodeCalls,
               recogCalls, FALSE, FALSE, FALSE)
  /\ UNCHANGED <<record_seconds, playing, uploaded>>

SetDuration(d) ==
  /\ Started /\ CallsOk
  /\ d # record_seconds
  /\ record_seconds' = d
  /\ trigger' = "duration"
  /\ textBox' = TextArea(InitSlot(tts_text))
  /\ NoSpeak
  /\ RunFrom69(tmpfiles, InitSlot(tts_text), uploaded, transcodeCalls,
               recogCalls, FALSE, FALSE, FALSE)
  /\ UNCHANGED <<lang, playing, uploaded>>

\* Start / Stop of the WebRTC streamer
ToggleWebRTC ==
  /\ Started /\ CallsOk
  /\ playing' = ~playing
  /\ trigger' = "webrtc"
  /\ textBox' = TextArea(InitSlot(tts_text))
  /\ NoSpeak
  /\ RunFrom69(tmpfiles, InitSlot(tts_text), uploaded, transcodeCalls,
               recogCalls, FALSE, FALSE, FALSE)
  /\ UNCHANGED <<lang, record_seconds, uploaded>>

Upload(f) ==
  /\ Started
  /\ uploaded' = f
  /\ trigger' = "upload"
  /\ textBox' = TextArea(InitSlot(tts_text))
  /\ NoSpeak
  /\ RunFrom69(tmpfiles, InitSlot(tts_text), f, 0, 0, FALSE, FALSE, FALSE)
  /\ UNCHANGED <<lang, record_seconds, playing>>

RemoveUpload ==
  /\ Started
  /\ uploaded # "none"
  /\ uploaded' = "none"
  /\ trigger' = "remove"
  /\ textBox' = TextArea(InitSlot(tts_text))
  /\ NoSpeak
  /\ RunFrom69(tmpfiles, InitSlot(tts_text), "none", 0, 0, FALSE, FALSE, FALSE)
  /\ UNCHANGED <<lang, record_seconds, playing>>

\* lines 51-57: Speak clicked; the run goes up to the call of tts.save.
\* gTTS(text, lang) does not raise here: the text is not empty and every
\* selectbox option splits to a language gTTS knows.
ClickSpeak ==
  /\ Started /\ CallsOk
  /\ trigger' = "speak"
  /\ textBox' = TextArea(InitSlot(tts_text))
  /\ UNCHANGED <<lang, record_seconds, playing, uploaded>>
  /\ LET text == TextArea(InitSlot(tts_text))
     IN IF Strip(text) = <<>>
        THEN /\ speakOut' = "warning"
             /\ embed' = None
             /\ UNCHANGED <<pc, tts, resp>>
             /\ RunFrom69(tmpfiles, InitSlot(tts_text), uploaded,
                          transcodeCalls, recogCalls, FALSE, FALSE, FALSE)
        ELSE /\ tts' = [text |-> text, lang |-> GttsLang(lang)]
             /\ tmpfiles' = NamedTemporaryFile(tmpfiles, "mp3")
             /\ pc' = "saving"
             /\ resp' = "pending"
             /\ speakOut' = "none"
             /\ embed' = None
             /\ tts_text' = InitSlot(tts_text)
             /\ UNCHANGED <<recOut, recTranscript, recRecog, upTranscript,
                            upError, upRecog, aborted, transcodeCalls,
                            recogCalls>>

\* the synthesis service answers the request made by tts.save
ServiceAnswers(r) ==
  /\ pc = "saving" /\ resp = "pending"
  /\ resp' = r
  /\ UNCHANGED <<tts_text, lang, record_seconds, playing, uploaded, tmpfiles,
                 pc, tts, trigger, textBox, speakOut, embed, recOut,
                 recTranscript, recRecog, upTranscript, upError, upRecog,
                 aborted, transcodeCalls, recogCalls>>

\* lines 59-67 and the rest of the run, once tts.save has its answer
SaveReturns ==
  /\ pc = "saving" /\ resp \in SaveAnswers
  /\ pc' = "idle"
  /\ tts' = NoTts
  /\ resp' = "none"
  /\ UNCHANGED <<lang, record_seconds, playing, uploaded, trigger, textBox>>
  /\ \E fault \in SpeakFaults :
       LET r == SpeakTry(tmpfiles, resp, fault)
       IN /\ speakOut' = r.out
          /\ embed' = r.embed
          /\ IF r.raised
             THEN AbortedInSpeak(r.files, tts_text)
             ELSE RunFrom69(r.files, tts_text, uploaded, transcodeCalls,
                            recogCalls, FALSE, FALSE, FALSE)

ClickRecord ==
  /\ Started /\ CallsOk
  /\ trigger' = "record"
  /\ textBox' = TextArea(InitSlot(tts_text))
  /\ NoSpeak
  /\ RunFrom69(tmpfiles, InitSlot(tts_text), uploaded, transcodeCalls,
               recogCalls, TRUE, FALSE, FALSE)
  /\ UNCHANGED <<lang, record_seconds, playing, uploaded>>

\* the nested button of the Record block, shown by the previous run
ClickConfirmRecord ==
  /\ Started /\ CallsOk
  /\ recOut = "shown"
  /\ trigger' = "confirm_record"
  /\ textBox' = TextArea(InitSlot(tts_text))
  /\ NoSpeak
  /\ RunFrom69(tmpfiles, InitSlot(tts_text), uploaded, transcodeCalls,
               recogCalls, FALSE, TRUE, FALSE)
  /\ UNCHANGED <<lang, record_seconds, playing, uploaded>>

\* the button of the upload block, shown by the previous run
ClickConfirmUpload ==
  /\ Started /\ CallsOk
  /\ upTranscript # NoText
  /\ trigger' = "confirm_upload"
  /\ textBox' = TextArea(InitSlot(tts_text))
  /\ NoSpeak
  /\ RunFrom69(tmpfiles, InitSlot(tts_text), uploaded, transcodeCalls,
               recogCalls, FALSE, FALSE, TRUE)
  /\ UNCHANGED <<lang, record_seconds, playing, uploaded>>

Next ==
  \/ Load
  \/ \E t \in Texts : EditText(t)
  \/ \E l \in Langs : SelectLang(l)
  \/ \E d \in RecordSecondsChoices : SetDuration(d)
  \/ ToggleWebRTC
  \/ \E f \in Files : Upload(f)
  \/ RemoveUpload
  \/ ClickSpeak
  \/ \E r \in SaveAnswers : ServiceAnswers(r)
  \/ SaveReturns
  \/ ClickRecord
  \/ ClickConfirmRecord
  \/ ClickConfirmUpload

Spec == Init /\ [][Next]_vars

\* the script thread runs on once tts.save has returned; nothing makes the
\* service answer, and nothing makes the user act
FairSpec == Spec /\ WF_vars(SaveReturns)
\* ---------------------------------------------------------------- claims
AllWhitespace(t) == \A i \in 1..Len(t) : t[i] \in Whitespace
FailureMessage(k) == IF k = "unknown" THEN MsgUnknown ELSE MsgRequest
RecogFailures == {"unknown", "request"}

\* C1: after a recording was transcribed to T (stream playing, recognition
\* succeeded), the run started by clicking "Put transcription into TTS text
\* area" leaves the slot and the text box equal to T.
C1_RecordFeedback ==
  [][(trigger' = "confirm_record" /\ recRecog = "ok")
       => (tts_text' = recTranscript /\ textBox' = recTranscript)]_vars

\* C2: with an uploaded file whose transcription is T, the run started by
\* clicking "Put transcription into TTS text area (uploaded)" leaves the
\* slot equal to T and shows no error message.
C2_UploadSetText ==
  [][(trigger' = "confirm_upload" /\ upTranscript' # NoText)
       => (tts_text' = upTranscript' /\ ~upError')]_vars

\* C3: a Speak click on an empty or whitespace-only text shows the warning,
\* starts no synthesis (no gTTS object, no temporary file, no embed, no
\* pending save) and leaves the slot unchanged.
C3_BlankSpeak ==
  [][(trigger' = "speak" /\ pc = "idle" /\ tts_text # Absent
        /\ AllWhitespace(tts_text))
       => (/\ speakOut' = "warning"
           /\ pc' = "idle"
           /\ tts' = NoTts
           /\ embed' = None
           /\ tmpfiles' = tmpfiles
           /\ tts_text' = tts_text)]_vars

C3_Witness ==
  /\ trigger = "speak"
  /\ textBox # <<>> /\ AllWhitespace(textBox)
  /\ speakOut = "warning"

\* C4: a finished Speak run on a non-blank text either embedded a non-empty
\* audio artifact or surfaced a typed failure; it was not aborted by an
\* uncaught exception and did not embed an empty artifact.
C4_SpeakOutcome ==
  (trigger = "speak" /\ pc = "idle" /\ ~AllWhitespace(textBox))
    => /\ ~aborted
       /\ \/ speakOut = "played" /\ embed = "audio"
          \/ speakOut \in {"NoAudioProduced", "ServiceFailure"}

\* C5: the run started by uploading a file that cannot be decoded shows an
\* error message, is not aborted, makes no recognition call and changes
\* neither the slot nor the other session values.
C5_Undecodable ==
  [][(trigger' = "upload" /\ uploaded' \in {"corrupt", "empty"})
       => (/\ upError' /\ ~aborted'
           /\ upRecog' = "none" /\ recogCalls' = 0
           /\ upTranscript' = NoText
           /\ tts_text' = tts_text
           /\ lang' = lang /\ record_seconds' = record_seconds
           /\ playing' = playing
           /\ tmpfiles' = tmpfiles)]_vars

C5_Witness ==
  /\ trigger = "upload" /\ uploaded = "corrupt"
  /\ upError /\ ~aborted /\ recogCalls = 0

\* C6: when the recognition of a recorded or uploaded clip ends in
\* UnknownValueError or RequestError, the run is not aborted, the message
\* is what is shown as the transcription result, and the slot keeps its
\* value.
C6_RecognitionFailure ==
  [][(trigger' \in {"record", "upload"})
       => (/\ recRecog' \in RecogFailures
                => (/\ ~aborted'
                    /\ recOut' = "shown"
                    /\ recTranscript' = FailureMessage(recRecog')
                    /\ tts_text' = tts_text)
           /\ upRecog' \in RecogFailures
                => (/\ ~aborted' /\ ~upError'
                    /\ upTranscript' = FailureMessage(upRecog')
                    /\ tts_text' = tts_text))]_vars

C6_Witness ==
  /\ trigger = "record"
  /\ recRecog = "request" /\ recTranscript = MsgRequest
  /\ uploaded = "audio" /\ upRecog = "unknown" /\ upTranscript = MsgUnknown

C8_SpeakReturns == (pc = "saving") ~> (pc = "idle")

\* C9: while an uploaded file is present it has been transcoded at most
\* once and submitted to recognition at most once.
C9_ConsumedOnce ==
  uploaded # "none" => (transcodeCalls <= 1 /\ recogCalls <= 1)

\* C10: the slot, once defined, stays defined; it gets the greeting only in
\* the first run; later it changes only in a run started by a text edit or
\* by a confirmation click; the text box of each run shows the slot's value.
C10_SlotLifetime ==
  [][/\ tts_text # Absent => tts_text' # Absent
     /\ (tts_text = Absent /\ tts_text' # Absent)
          => (tts_text' = DefaultText /\ trigger' = "load")
     /\ (tts_text # Absent /\ tts_text' # tts_text)
          => trigger' \in {"edit", "confirm_record", "confirm_upload"}
     /\ tts_text' # Absent => textBox' = tts_text']_vars

C10_Witness ==
  /\ trigger \in {"speak", "record", "upload", "lang", "duration"}
  /\ pc = "idle"
  /\ tts_text \in Texts /\ textBox = tts_text
====
